---- MODULE Spec2Model ----
(***************************************************************************)
(* Cricket Performance Tracker (src/script.js): the record collection, the *)
(* in-progress form and the values the component derives from them.       *)
(*                                                                         *)
(* JavaScript values are tagged records: Num(n) a number, Str(s) a string  *)
(* given as its sequence of characters, Null, Undef and NaN.  An object is *)
(* a function from its own property names to values; a property the       *)
(* object does not have reads as Undef (Get).                              *)
(*                                                                         *)
(* Decimal results of toFixed are kept as scaled integers: a value rounded *)
(* to 1 decimal is held in tenths, one rounded to 2 decimals in hundredths.*)
(* Quotients are taken exactly, as rationals, before they are rounded.     *)
(*                                                                         *)
(* storage is the text localStorage holds under STORAGE_KEY (Null when    *)
(* the key is absent), status tells whether the component is mounted and   *)
(* rendering, alertMsg is the text of the alert() on screen.  A text that  *)
(* is JSON is held as the value it denotes (JsonText); the other texts are *)
(* spelled out.                                                            *)
(*                                                                         *)
(* The passive free-text properties of a record (time, matchType, venue,   *)
(* the three notes) are copied through by every operation and read by no   *)
(* derived value; they are not carried.                                    *)
(***************************************************************************)
EXTENDS Integers, Sequences, FiniteSets, TLC

VARIABLES entries, form, nextId, storage, status, alertMsg

vars == <<entries, form, nextId, storage, status, alertMsg>>

---------------------------------------------------------------------------
(* JavaScript values *)

Num(n) == [t |-> "num", v |-> n]
Str(s) == [t |-> "str", v |-> s]
Null == [t |-> "null"]
Undef == [t |-> "undef"]
NaN == [t |-> "nan"]

Get(o, f) == IF f \in DOMAIN o THEN o[f] ELSE Undef

\* ToBoolean
Truthy(x) ==
    CASE x.t = "num" -> x.v # 0
      [] x.t = "str" -> x.v # <<>>
      [] OTHER -> FALSE

\* a || b
JsOr(a, b) == IF Truthy(a) THEN a ELSE b

\* a + b on numbers (NaN when an operand is undefined or NaN)
JsAdd(a, b) == IF a.t = "num" /\ b.t = "num" THEN Num(a.v + b.v) ELSE NaN

\* a > n (false when a is undefined or NaN)
JsGt(a, n) == a.t = "num" /\ a.v > n

Abs(n) == IF n < 0 THEN -n ELSE n

Max(a, b) == IF a > b THEN a ELSE b

Min(a, b) == IF a < b THEN a ELSE b

Digits == <<"0", "1", "2", "3", "4", "5", "6", "7", "8", "9">>

IsDigit(c) == \E i \in 1..10 : Digits[i] = c

DigitVal(c) == (CHOOSE i \in 1..10 : Digits[i] = c) - 1

RECURSIVE NatToText(_)
NatToText(n) == IF n < 10 THEN <<Digits[n + 1]>>
                ELSE NatToText(n \div 10) \o <<Digits[(n % 10) + 1]>>

\* String(v)
ToText(x) ==
    CASE x.t = "str" -> x.v
      [] x.t = "num" -> IF x.v < 0 THEN <<"-">> \o NatToText(-x.v) ELSE NatToText(x.v)
      [] x.t = "null" -> <<"n", "u", "l", "l">>
      [] x.t = "undef" -> <<"u", "n", "d", "e", "f", "i", "n", "e", "d">>
      [] OTHER -> <<"N", "a", "N">>

RECURSIVE SkipSpace(_)
SkipSpace(s) == IF s # <<>> /\ Head(s) = " " THEN SkipSpace(Tail(s)) ELSE s

RECURSIVE DigitPrefix(_)
DigitPrefix(s) == IF s # <<>> /\ IsDigit(Head(s)) THEN <<Head(s)>> \o DigitPrefix(Tail(s))
                  ELSE <<>>

RECURSIVE DigitsValue(_)
DigitsValue(ds) == IF ds = <<>> THEN 0
                   ELSE DigitsValue(SubSeq(ds, 1, Len(ds) - 1)) * 10 + DigitVal(ds[Len(ds)])

\* parseInt(v, 10): leading blanks, an optional sign, the longest run of digits
parseInt(x) ==
    LET s == SkipSpace(ToText(x))
        neg == s # <<>> /\ Head(s) = "-"
        signed == s # <<>> /\ Head(s) \in {"-", "+"}
        ds == DigitPrefix(IF signed THEN Tail(s) ELSE s)
    IN  IF ds = <<>> THEN NaN
        ELSE Num(IF neg THEN -DigitsValue(ds) ELSE DigitsValue(ds))

toInt(x) ==
    LET n == parseInt(x)
    IN  IF n.t = "num" THEN n.v ELSE 0

\* String.prototype.split("."): the pieces between the dots
RECURSIVE SplitDot(_)
SplitDot(s) ==
    IF \A i \in 1..Len(s) : s[i] # "." THEN <<s>>
    ELSE LET k == CHOOSE i \in 1..Len(s) : s[i] = "." /\ \A j \in 1..(i - 1) : s[j] # "."
         IN  <<SubSeq(s, 1, k - 1)>> \o SplitDot(SubSeq(s, k + 1, Len(s)))

oversToBalls(overs) ==
    IF overs.t \in {"null", "undef"} \/ overs = Str(<<>>) THEN 0
    ELSE LET parts == SplitDot(ToText(overs))
             whole == toInt(Str(parts[1]))
             balls == IF Len(parts) >= 2 /\ parts[2] # <<>> THEN toInt(Str(parts[2])) ELSE 0
         IN  whole * 6 + balls

---------------------------------------------------------------------------
(* Strings of the program *)

T20 == Str(<<"T", "2", "0">>)
ODI == Str(<<"O", "D", "I">>)
NotOut == Str(<<"N", "o", "t", " ", "O", "u", "t">>)
Bowled == Str(<<"B", "o", "w", "l", "e", "d">>)
LBW == Str(<<"L", "B", "W">>)
Caught == Str(<<"C", "a", "u", "g", "h", "t">>)
Unknown == Str(<<"U", "n", "k", "n", "o", "w", "n">>)
Empty == Str(<<>>)

\* The text inputs whose value addOrUpdateEntry passes through toInt
NumericFields ==
    {"runs", "balls", "singles", "doubles", "triples", "fours", "sixes", "dots",
     "bowlBalls", "runsConceded", "wickets", "maidens", "wides", "noBalls",
     "catches", "runOuts", "drops", "misfields"}

\* Dates are ISO texts; new Date(d) is their day number, NaN when unreadable
Day1 == Str(<<"2", "0", "2", "4", "-", "0", "1", "-", "0", "1">>)
Day2 == Str(<<"2", "0", "2", "4", "-", "0", "1", "-", "0", "2">>)
Today == Str(<<"2", "0", "2", "4", "-", "0", "1", "-", "0", "3">>)

DateMs(d) ==
    CASE d = Day1 -> Num(1)
      [] d = Day2 -> Num(2)
      [] d = Today -> Num(3)
      [] OTHER -> NaN

\* crypto.randomUUID(): the n-th identifier drawn, never drawn before
randomUUID(n) == Str(<<"u">> \o NatToText(n))

---------------------------------------------------------------------------
(* Bounds *)

\* Records in the collection: a save that adds and an import stay within it
MaxEntries == 2

\* Identifiers crypto.randomUUID hands out
MaxIds == 1

\* Records in a sample collection
MaxSeries == 3

\* Identifiers crypto.randomUUID hands out where records come from the
\* form alone
MaxFormIds == 2

---------------------------------------------------------------------------
(* State *)

\* The form as useState and resetForm build it
BlankForm ==
    [f \in NumericFields |-> Empty] @@
    [id |-> Null, date |-> Today, format |-> T20, dismissal |-> NotOut, overs |-> Empty]

\* What the user types before saving: each is the values of the inputs the
\* onChange handlers write, the inputs left out staying as they are
BlankTyped ==
    [format |-> T20, dismissal |-> NotOut, runs |-> Empty, balls |-> Empty,
     dots |-> Empty, overs |-> Empty, bowlBalls |-> Empty, wickets |-> Empty,
     wides |-> Empty, noBalls |-> Empty]

FormInputs ==
    { \* a slow T20 knock and five wicketless overs given as a ball count
      [BlankTyped EXCEPT !.runs = Str(<<"1", "0">>), !.balls = Str(<<"2", "0">>),
                         !.dots = Str(<<"1", "5">>), !.bowlBalls = Str(<<"3", "0">>)],
      \* an ODI innings: a negative number and unreadable text typed, overs
      \* and ball count both given, extras bowled
      [BlankTyped EXCEPT !.format = ODI, !.dismissal = Caught,
                         !.runs = Str(<<"-", "5">>), !.balls = Str(<<"1", "2", "x">>),
                         !.dots = Str(<<"a", "b", "c">>), !.overs = Str(<<"2", ".", "3">>),
                         !.bowlBalls = Str(<<"1", "2">>), !.wickets = Str(<<"1">>),
                         !.wides = Str(<<"2">>), !.noBalls = Str(<<"1">>)] }

\* Objects of an imported array: numeric properties are JSON numbers or absent
ImportRecords ==
    { \* dismissal, overs and ball count absent
      [id |-> Str(<<"a">>), date |-> Day2, format |-> T20, runs |-> Num(40),
       balls |-> Num(20), fours |-> Num(4), sixes |-> Num(2), catches |-> Num(1)],
      \* empty dismissal, a zero ball count beside an overs text, a drop
      [id |-> Str(<<"b">>), date |-> Day1, format |-> ODI, dismissal |-> Empty,
       runs |-> Num(7), balls |-> Num(30), dots |-> Num(20), overs |-> Str(<<"3", ".", "9">>),
       bowlBalls |-> Num(0), runsConceded |-> Num(45), wides |-> Num(3), drops |-> Num(1)] }

ImportArrays == UNION {[1..n -> ImportRecords] : n \in 0..MaxEntries}

\* No alert() on screen
NoAlert == ""

\* JSON values that are not strings, numbers or null: an array, an object
Arr(list) == [t |-> "arr", v |-> list]
Obj(o) == [t |-> "obj", v |-> o]

\* The text that JSON.parse reads as value
JsonText(value) == [t |-> "json", v |-> value]

\* A text JSON.parse throws on
NotJson == Str(<<"{">>)

\* JSON.stringify of one record: a property holding undefined is left
\* out, NaN is written as null
toJSON(o) ==
    [k \in {f \in DOMAIN o : o[f] # Undef} |-> IF o[k] = NaN THEN Null ELSE o[k]]

\* JSON.stringify(entries)
JSONstringify(list) == JsonText(Arr([i \in 1..Len(list) |-> toJSON(list[i])]))

\* JSON.parse(text): the value, or thrown; of the spelled-out texts only
\* those that are not JSON occur
JSONparse(text) ==
    IF text.t = "json" THEN [thrown |-> FALSE, v |-> text.v] ELSE [thrown |-> TRUE]

\* What localStorage may hold under STORAGE_KEY when the page is opened:
\* nothing, the empty text, a text that is not JSON, the JSON of an object,
\* or what an earlier session saved
StoredTexts ==
    {Null, Empty, NotJson, JsonText(Obj([saved |-> Num(1)]))} \cup
    {JSONstringify(list) : list \in ImportArrays}

\* The page before the component is mounted
Init ==
    /\ entries = <<>>
    /\ form = BlankForm
    /\ nextId = 1
    /\ storage \in StoredTexts
    /\ status = "unmounted"
    /\ alertMsg = NoAlert

---------------------------------------------------------------------------
(* Handlers *)

\* The component is rendered and no alert() holds the page
Ready == status = "running" /\ alertMsg = NoAlert

\* useEffect(..., [entries]): the collection just set is written to storage
saveEntries == storage' = JSONstringify(entries')

\* The initializer of useState for entries
loadEntries(raw) ==
    IF raw.t = "null" \/ (raw.t = "str" /\ raw.v = <<>>) THEN Arr(<<>>)
    ELSE LET parsed == JSONparse(raw)
         IN  IF parsed.thrown THEN Arr(<<>>) ELSE parsed.v

\* The page is opened or reloaded: the component mounts with the loaded
\* value and a blank form, renders, and the effect saves.  Rendering a
\* loaded value that is not iterable throws ([...entries], for..of) and
\* React takes the component down before any effect runs.
pageLoad ==
    LET loaded == loadEntries(storage)
    IN  /\ form' = BlankForm
        /\ IF loaded.t = "arr"
           THEN /\ entries' = loaded.v
                /\ status' = "running"
                /\ saveEntries
           ELSE /\ entries' = <<>>
                /\ status' = "crashed"
                /\ UNCHANGED storage
        /\ UNCHANGED <<nextId, alertMsg>>

\* {...a, ...b}
Spread(a, b) == [k \in DOMAIN a \cup DOMAIN b |-> IF k \in DOMAIN b THEN b[k] ELSE a[k]]

\* onChange / onValueChange of the form's inputs: setForm({...form, field: value})
setForm(typed) ==
    /\ Ready
    /\ form' = Spread(form, typed)
    /\ UNCHANGED <<entries, nextId, storage, status, alertMsg>>

resetForm(f) == Spread(f, BlankForm)

\* Array.prototype.findIndex on e.id === id; 0 stands for -1
findIndex(list, id) ==
    IF \E i \in 1..Len(list) : Get(list[i], "id") = id
    THEN CHOOSE i \in 1..Len(list) :
            /\ Get(list[i], "id") = id
            /\ \A j \in 1..(i - 1) : Get(list[j], "id") # id
    ELSE 0

\* The object addOrUpdateEntry builds from the form
payloadOf(f, uuid) ==
    Spread(f,
        [k \in NumericFields |-> Num(toInt(Get(f, k)))] @@
        [id |-> IF Get(f, "id").t \in {"null", "undef"} THEN uuid ELSE f.id,
         overs |-> IF Get(f, "overs") = Empty THEN Empty ELSE Str(ToText(Get(f, "overs")))])

\* A save that puts the record in front whether or not its identifier is
\* in the collection
addOrUpdateEntryInFront(ids) ==
    LET fresh == Get(form, "id").t \in {"null", "undef"}
        payload == payloadOf(form, randomUUID(nextId))
    IN  /\ Ready
        /\ fresh => nextId <= ids
        /\ Len(entries) < MaxEntries
        /\ entries' = <<payload>> \o entries
        /\ nextId' = IF fresh THEN nextId + 1 ELSE nextId
        /\ form' = resetForm(form)
        /\ saveEntries
        /\ UNCHANGED <<status, alertMsg>>

\* The Save Entry button, crypto.randomUUID handing out at most ids
\* identifiers
addOrUpdateEntryUpTo(ids) ==
    LET fresh == Get(form, "id").t \in {"null", "undef"}
        payload == payloadOf(form, randomUUID(nextId))
        idx == findIndex(entries, payload.id)
    IN  /\ Ready
        /\ fresh => nextId <= ids /\ Len(entries) < MaxEntries
        /\ entries' = IF idx > 0 THEN [entries EXCEPT ![idx] = payload]
                       ELSE <<payload>> \o entries
        /\ nextId' = IF fresh THEN nextId + 1 ELSE nextId
        /\ form' = resetForm(form)
        /\ saveEntries
        /\ UNCHANGED <<status, alertMsg>>

addOrUpdateEntry == addOrUpdateEntryUpTo(MaxIds)

deleteEntry(id) ==
    /\ Ready
    /\ \E i \in 1..Len(entries) : Get(entries[i], "id") = id
    /\ LET Keep(e) == Get(e, "id") # id
       IN  entries' = SelectSeq(entries, Keep)
    /\ saveEntries
    /\ UNCHANGED <<form, nextId, status, alertMsg>>

\* confirm() answered yes; answered no, nothing changes
clearAll ==
    /\ Ready
    /\ entries' = <<>>
    /\ form' = resetForm(form)
    /\ saveEntries
    /\ UNCHANGED <<nextId, status, alertMsg>>

\* The Edit button of a row: setForm({...e})
editEntry(i) ==
    /\ Ready
    /\ form' = entries[i]
    /\ UNCHANGED <<entries, nextId, storage, status, alertMsg>>

InvalidFile == "Invalid file: expected an array of entries."
CouldNotParse == "Could not parse JSON file."

\* reader.onload that empties the collection when it rejects the file
importJSONClears(file) ==
    /\ Ready
    /\ LET data == JSONparse(file)
       IN  IF data.thrown
           THEN /\ alertMsg' = CouldNotParse
                /\ entries' = <<>>
                /\ saveEntries
           ELSE IF data.v.t = "arr"
           THEN /\ entries' = data.v.v
                /\ saveEntries
                /\ UNCHANGED alertMsg
           ELSE /\ alertMsg' = InvalidFile
                /\ entries' = <<>>
                /\ saveEntries
    /\ UNCHANGED <<form, nextId, status>>

\* reader.onload, the text of the chosen file in reader.result
importJSON(file) ==
    /\ Ready
    /\ LET data == JSONparse(file)
       IN  IF data.thrown
           THEN /\ alertMsg' = CouldNotParse
                /\ UNCHANGED <<entries, storage>>
           ELSE IF data.v.t = "arr"
           THEN /\ entries' = data.v.v
                /\ saveEntries
                /\ UNCHANGED alertMsg
           ELSE /\ alertMsg' = InvalidFile
                /\ UNCHANGED <<entries, storage>>
    /\ UNCHANGED <<form, nextId, status>>

\* The user closes the alert(); until then the page takes no other input
dismissAlert ==
    /\ alertMsg # NoAlert
    /\ alertMsg' = NoAlert
    /\ UNCHANGED <<entries, form, nextId, storage, status>>

\* The files of entries the user picks to import
ImportFiles == {JSONstringify(list) : list \in ImportArrays}

Next ==
    \/ pageLoad
    \/ \E typed \in FormInputs : setForm(typed)
    \/ addOrUpdateEntry
    \/ \E i \in 1..Len(entries) : deleteEntry(Get(entries[i], "id"))
    \/ clearAll
    \/ \E i \in 1..Len(entries) : editEntry(i)
    \/ \E file \in ImportFiles : importJSON(file)

Spec == Init /\ [][Next]_vars

\* The app opened with nothing stored
InitForm ==
    /\ entries = <<>>
    /\ form = BlankForm
    /\ nextId = 1
    /\ storage = JSONstringify(entries)
    /\ status = "running"
    /\ alertMsg = NoAlert

NextForm ==
    \/ \E typed \in FormInputs : setForm(typed)
    \/ addOrUpdateEntryUpTo(MaxFormIds)
    \/ \E i \in 1..Len(entries) : deleteEntry(Get(entries[i], "id"))
    \/ clearAll
    \/ \E i \in 1..Len(entries) : editEntry(i)

\* The collection built through the form alone: Save Entry, Edit, Delete
\* and Reset, no import and no reload
SpecForm == InitForm /\ [][NextForm]_vars

\* Records as a file of entries may carry them: dates that tie, a date
\* left out, dismissals outside the form's list, left out or empty, and
\* totals whose denominators are zero
SampleRecords ==
    { [id |-> Str(<<"p">>), date |-> Today, format |-> T20, dismissal |-> Bowled,
       runs |-> Num(30), balls |-> Num(20), fours |-> Num(3), dots |-> Num(5),
       bowlBalls |-> Num(12), runsConceded |-> Num(8)],
      [id |-> Str(<<"q">>), date |-> Day1, format |-> ODI, dismissal |-> Str(<<"7">>),
       runs |-> Num(12), runsConceded |-> Num(9)],
      [id |-> Str(<<"r">>), date |-> Day1, format |-> ODI, dismissal |-> Empty,
       runs |-> Num(0), balls |-> Num(6), fours |-> Num(1), dots |-> Num(6)],
      [id |-> Str(<<"s">>), format |-> T20, runs |-> Num(5), dots |-> Num(2)] }

SampleCollections == UNION {[1..n -> SampleRecords] : n \in 0..MaxSeries}

\* The files the user picks: files of entries, a file that is not JSON,
\* the JSON of an object and of null
SampleFiles ==
    {JSONstringify(list) : list \in SampleCollections} \cup
    {NotJson, JsonText(Obj([entries |-> Num(0)])), JsonText(Null)}

\* The app running on a collection loaded earlier
InitImport ==
    /\ entries \in SampleCollections
    /\ form = BlankForm
    /\ nextId = 1
    /\ storage = JSONstringify(entries)
    /\ status = "running"
    /\ alertMsg = NoAlert

NextImport ==
    \/ \E file \in SampleFiles : importJSON(file)
    \/ dismissAlert

\* The collections a file of entries can bring in, and the imports alone
SpecImport == InitImport /\ [][NextImport]_vars

---------------------------------------------------------------------------
(* Derived metrics (the useMemo values), as functions of their inputs *)

\* +(n / d).toFixed(k) scaled by 10^k: n, d already carry the scale; the
\* nearest integer to n/d, a tie going away from zero
toFixed(n, d) ==
    LET q == (2 * Abs(n) + Abs(d)) \div (2 * Abs(d))
    IN  IF (n < 0) = (d < 0) THEN q ELSE -q

\* Math.round(n / d): the nearest integer, a tie going up
MathRound(n, d) ==
    IF d > 0 THEN (2 * n + d) \div (2 * d) ELSE (-(2 * n) - d) \div (-(2 * d))

\* e.f || 0
OrZero(e, f) == JsOr(Get(e, f), Num(0)).v

\* the explicit count and the overs-derived count both summed
effectiveBowlBallsBoth(e) == OrZero(e, "bowlBalls") + oversToBalls(Get(e, "overs"))

\* e.bowlBalls || oversToBalls(e.overs)
effectiveBowlBalls(e) == JsOr(Get(e, "bowlBalls"), Num(oversToBalls(Get(e, "overs")))).v

\* e.dismissal && e.dismissal !== "Not Out" ? 1 : 0
outIncrement(e) ==
    IF Truthy(Get(e, "dismissal")) /\ Get(e, "dismissal") # NotOut THEN 1 ELSE 0

ZeroTotals(n) ==
    [matches |-> n, runs |-> 0, balls |-> 0, outs |-> 0, fours |-> 0, sixes |-> 0,
     dots |-> 0, wickets |-> 0, bowlBalls |-> 0, runsConceded |-> 0, maidens |-> 0,
     catches |-> 0, runOuts |-> 0, drops |-> 0, misfields |-> 0]

\* t.runs = ... written for t.runs += ...
accumulateAssign(t, e) ==
    [t EXCEPT !.runs = OrZero(e, "runs"),
              !.balls = @ + OrZero(e, "balls"),
              !.outs = @ + outIncrement(e),
              !.fours = @ + OrZero(e, "fours"),
              !.sixes = @ + OrZero(e, "sixes"),
              !.dots = @ + OrZero(e, "dots"),
              !.wickets = @ + OrZero(e, "wickets"),
              !.bowlBalls = @ + effectiveBowlBalls(e),
              !.runsConceded = @ + OrZero(e, "runsConceded"),
              !.maidens = @ + OrZero(e, "maidens"),
              !.catches = @ + OrZero(e, "catches"),
              !.runOuts = @ + OrZero(e, "runOuts"),
              !.drops = @ + OrZero(e, "drops"),
              !.misfields = @ + OrZero(e, "misfields")]

\* One turn of the loop of totals
accumulate(t, e) ==
    [t EXCEPT !.runs = @ + OrZero(e, "runs"),
              !.balls = @ + OrZero(e, "balls"),
              !.outs = @ + outIncrement(e),
              !.fours = @ + OrZero(e, "fours"),
              !.sixes = @ + OrZero(e, "sixes"),
              !.dots = @ + OrZero(e, "dots"),
              !.wickets = @ + OrZero(e, "wickets"),
              !.bowlBalls = @ + effectiveBowlBalls(e),
              !.runsConceded = @ + OrZero(e, "runsConceded"),
              !.maidens = @ + OrZero(e, "maidens"),
              !.catches = @ + OrZero(e, "catches"),
              !.runOuts = @ + OrZero(e, "runOuts"),
              !.drops = @ + OrZero(e, "drops"),
              !.misfields = @ + OrZero(e, "misfields")]

RECURSIVE totalsLoop(_, _)
totalsLoop(t, list) ==
    IF list = <<>> THEN t ELSE totalsLoop(accumulate(t, Head(list)), Tail(list))

totals(list) == totalsLoop(ZeroTotals(Len(list)), list)

\* A batting average that is 0 when nobody was out
battingAverageZero(t) == IF t.outs # 0 THEN toFixed(t.runs * 100, t.outs) ELSE 0

\* in hundredths
battingAverage(t) == IF t.outs # 0 THEN toFixed(t.runs * 100, t.outs) ELSE t.runs * 100

\* in tenths
calcStrikeRate(runs, balls) == IF balls = 0 THEN 0 ELSE toFixed(runs * 1000, balls)

battingSR(t) == calcStrikeRate(t.runs, t.balls)

\* in hundredths: runsConceded / (bowlBalls / 6)
bowlingEconomy(t) == IF t.bowlBalls = 0 THEN 0 ELSE toFixed(t.runsConceded * 600, t.bowlBalls)

\* in tenths
boundaryPct(t) ==
    IF t.runs = 0 THEN 0 ELSE toFixed((t.fours * 4 + t.sixes * 6) * 1000, t.runs)

\* in tenths
dotPct(t) == IF t.balls = 0 THEN 0 ELSE toFixed(t.dots * 1000, t.balls)

\* The tally of dismissalCounts, in the order the keys were first written;
\* a property key is the text of the value used as key.  No sample kind
\* names a property that {} inherits (constructor, toString, ...), for
\* which map[key] || 0 reads the inherited value.
RECURSIVE tally(_, _)
tally(map, list) ==
    IF list = <<>> THEN map
    ELSE LET key == Str(ToText(JsOr(Get(Head(list), "dismissal"), Unknown)))
         IN  IF \E i \in 1..Len(map) : map[i].name = key
             THEN tally([i \in 1..Len(map) |->
                            IF map[i].name = key
                            THEN [map[i] EXCEPT !.value = @ + 1] ELSE map[i]],
                        Tail(list))
             ELSE tally(Append(map, [name |-> key, value |-> 1]), Tail(list))

\* The numeral a is at most the numeral b, neither with a leading zero
NumeralLeq(a, b) ==
    \/ Len(a) < Len(b)
    \/ /\ Len(a) = Len(b)
       /\ \A i \in 1..Len(a) :
             (\A j \in 1..(i - 1) : a[j] = b[j]) => DigitVal(a[i]) <= DigitVal(b[i])

\* 2^32 - 2, the largest array index
MaxArrayIndex == <<"4", "2", "9", "4", "9", "6", "7", "2", "9", "4">>

\* A property key that is an array index: the canonical text of an integer
\* from 0 to 2^32 - 2
IsArrayIndex(key) ==
    /\ key.v # <<>>
    /\ \A i \in 1..Len(key.v) : IsDigit(key.v[i])
    /\ Len(key.v) > 1 => key.v[1] # "0"
    /\ NumeralLeq(key.v, MaxArrayIndex)

\* Pairs keyed by array indices, in ascending order of the index
RECURSIVE ascendingIndices(_)
ascendingIndices(pairs) ==
    IF pairs = <<>> THEN <<>>
    ELSE LET least == CHOOSE i \in 1..Len(pairs) :
                         \A j \in 1..Len(pairs) :
                            NumeralLeq(pairs[i].name.v, pairs[j].name.v)
         IN  <<pairs[least]>> \o
             ascendingIndices(SubSeq(pairs, 1, least - 1) \o
                              SubSeq(pairs, least + 1, Len(pairs)))

\* Object.entries(map): the own properties in the order the language
\* enumerates them, array-index keys first in ascending order, then the
\* other keys in the order they were created
ObjectEntries(map) ==
    LET IsIndexPair(pair) == IsArrayIndex(pair.name)
        IsNamePair(pair) == ~IsArrayIndex(pair.name)
    IN  ascendingIndices(SelectSeq(map, IsIndexPair)) \o SelectSeq(map, IsNamePair)

dismissalCounts(list) == ObjectEntries(tally(<<>>, list))

\* dismissalCounts.find(d => d.name === name)?.value || 0
countOf(list, name) ==
    LET dc == dismissalCounts(list)
    IN  IF \E i \in 1..Len(dc) : dc[i].name = name
        THEN dc[CHOOSE i \in 1..Len(dc) : dc[i].name = name].value
        ELSE 0

\* new Date(a.date) - new Date(b.date) > 0
dateAfter(a, b) ==
    LET x == DateMs(Get(a, "date"))
        y == DateMs(Get(b, "date"))
    IN  x.t = "num" /\ y.t = "num" /\ x.v > y.v

\* [...entries].sort(by date): stable, an entry goes behind those not after it
RECURSIVE insertSorted(_, _)
insertSorted(done, e) ==
    IF done = <<>> THEN <<e>>
    ELSE IF dateAfter(done[Len(done)], e)
         THEN Append(insertSorted(SubSeq(done, 1, Len(done) - 1), e), done[Len(done)])
         ELSE Append(done, e)

RECURSIVE sortLoop(_, _)
sortLoop(done, list) ==
    IF list = <<>> THEN done ELSE sortLoop(insertSorted(done, Head(list)), Tail(list))

sorted(list) == sortLoop(<<>>, list)

\* new Date(d).toLocaleDateString(): the locale's text of a date, kept as
\* the ISO text, and "Invalid Date" for a date that cannot be read
fmtDate(d) ==
    IF DateMs(d).t = "num" THEN d
    ELSE Str(<<"I", "n", "v", "a", "l", "i", "d", " ", "D", "a", "t", "e">>)

\* The points of the runs and strike-rate chart
runTrend(list) ==
    LET s == sorted(list)
    IN  [i \in 1..Len(s) |->
            [idx |-> i,
             date |-> fmtDate(Get(s[i], "date")),
             runs |-> OrZero(s[i], "runs"),
             sr |-> calcStrikeRate(OrZero(s[i], "runs"), OrZero(s[i], "balls"))]]

\* Math.min(100, Math.round((totals.runs / Math.max(1, entries.length)) * 2))
batVolume(t, n) == Min(100, MathRound(t.runs * 2, Max(1, n)))

batSR(t) == Min(100, MathRound(battingSR(t), 10))

rotation(t) == Max(0, Min(100, MathRound(1000 - dotPct(t), 10)))

\* Math.min(100, Math.round(boundaryPct * 1.2))
power(t) == Min(100, MathRound(boundaryPct(t) * 12, 100))

\* the early return on no balls bowled left out
bowlStrikeNoGuard(t) ==
    LET w == Max(1, t.wickets)
    IN  IF t.bowlBalls * 100 >= 100 * 30 * w THEN Min(100, 0)
        ELSE Min(100, MathRound(3000 * w - 100 * t.bowlBalls, 30 * w))

\* sr = balls / max(1, wickets); round(100 - min(100, (sr / 30) * 100))
bowlStrike(t) ==
    LET w == Max(1, t.wickets)
    IN  IF t.bowlBalls = 0 THEN 0
        ELSE IF t.bowlBalls * 100 >= 100 * 30 * w THEN Min(100, 0)
        ELSE Min(100, MathRound(3000 * w - 100 * t.bowlBalls, 30 * w))

economy(t) == Max(0, Min(100, MathRound(10000 - bowlingEconomy(t) * 8, 100)))

fielding(t) ==
    Max(0, Min(100, (t.catches + t.runOuts) * 10 - (t.drops + t.misfields) * 5))

skillScores(list) ==
    LET t == totals(list)
    IN  [batVolume |-> batVolume(t, Len(list)), batSR |-> batSR(t),
         rotation |-> rotation(t), power |-> power(t), bowlStrike |-> bowlStrike(t),
         economy |-> economy(t), fielding |-> fielding(t)]

---------------------------------------------------------------------------
(* Auto-insights *)

\* An item of the list: its area, its message (named by what it reports) and
\* the number the message quotes
Item(area, msg, arg) == [area |-> area, msg |-> msg, arg |-> arg]

RECURSIVE sumRuns(_)
sumRuns(list) == IF list = <<>> THEN 0 ELSE OrZero(Head(list), "runs") + sumRuns(Tail(list))

\* entries.some(e => e.format === "T20")
someT20(list) == \E i \in 1..Len(list) : Get(list[i], "format") = T20

\* totals.f read as a property: undefined when totals has no such property
totalsProp(t, f) == IF f \in DOMAIN t THEN Num(t[f]) ELSE Undef

\* battingSR < 100 && (form.format === "T20" || entries.some(...))
strikeRateRule(list, f) ==
    battingSR(totals(list)) < 1000 /\ (Get(f, "format") = T20 \/ someT20(list))

\* widesNb > 0 && widesNb / Math.max(1, totals.bowlBalls) > 0.05
extrasRule(t) ==
    LET widesNb == JsAdd(totalsProp(t, "wides"), totalsProp(t, "noBalls"))
    IN  /\ JsGt(widesNb, 0)
        /\ widesNb.v * 100 > 5 * Max(1, t.bowlBalls)

When(cond, item) == IF cond THEN <<item>> ELSE <<>>

insights(list, f) ==
    LET t == totals(list)
        n == Len(list)
        s == sorted(list)
        last3 == SubSeq(s, Max(1, n - 2), n)
        rules ==
            When(n >= 3, Item("Batting", "Last 3 innings avg", toFixed(sumRuns(last3) * 10, 3)))
            \o When(strikeRateRule(list, f), Item("Batting", "Strike rate below benchmark", 0))
            \o When(dotPct(t) > 450, Item("Batting", "High dot ball percentage", dotPct(t)))
            \o When(boundaryPct(t) < 350 /\ someT20(list),
                    Item("Batting", "Boundary %", boundaryPct(t)))
            \o When(n # 0 /\ countOf(list, Caught) * 10 > 4 * Max(1, n),
                    Item("Shot Selection", "Many dismissals are caught", 0))
            \o When(n # 0 /\ (countOf(list, LBW) + countOf(list, Bowled)) * 10 > 3 * Max(1, n),
                    Item("Technique", "LBW/Bowled frequency", 0))
            \o When(someT20(list) /\ bowlingEconomy(t) > 850,
                    Item("Bowling", "Economy in T20", bowlingEconomy(t)))
            \o When(extrasRule(t), Item("Discipline", "High extras rate", 0))
            \o When(t.wickets = 0 /\ t.bowlBalls > 24, Item("Bowling", "Low wicket-taking", 0))
            \o When(t.drops > t.catches, Item("Fielding", "Drops exceed catches", 0))
    IN  IF rules = <<>> THEN <<Item("Overall", "Good balance so far", 0)>> ELSE rules

---------------------------------------------------------------------------
(* Properties *)

Fallback == Item("Overall", "Good balance so far", 0)

Discipline == Item("Discipline", "High extras rate", 0)

Contains(list, x) == \E i \in 1..Len(list) : list[i] = x

RECURSIVE sumOf(_, _)
sumOf(list, f) == IF list = <<>> THEN 0 ELSE OrZero(Head(list), f) + sumOf(Tail(list), f)

\* C1: with an empty collection and the form as it starts, the insight list
\* is exactly the fallback "Overall" item.
C1_EmptyInitialFallback ==
    (status = "running" /\ entries = <<>> /\ form = BlankForm) => insights(entries, form) = <<Fallback>>

\* C2: the insight list depends on the collection alone: a step that leaves
\* the collection as it is (a change to the form) leaves the list as it is.
C2_InsightsOfCollectionAlone ==
    [][entries' = entries => insights(entries', form') = insights(entries, form)]_vars

\* C3: when the bowling-ball total is positive and wides plus no-balls exceed
\* 5% of it the list holds the Discipline item; when the total is 0 it does not.
C3_DisciplineFlagged ==
    LET t == totals(entries)
        extras == sumOf(entries, "wides") + sumOf(entries, "noBalls")
        list == insights(entries, form)
    IN  /\ (t.bowlBalls > 0 /\ extras * 100 > 5 * t.bowlBalls) => Contains(list, Discipline)
        /\ t.bowlBalls = 0 => ~Contains(list, Discipline)

C4_TotalsAndMetricsZero ==
    LET t == totals(entries)
    IN  /\ \A k \in DOMAIN t : t[k] = 0
        /\ battingAverage(t) = 0 /\ battingSR(t) = 0 /\ bowlingEconomy(t) = 0
        /\ boundaryPct(t) = 0 /\ dotPct(t) = 0

\* C4 as stated: for an empty collection every total, every derived metric
\* and every one of the seven skill scores is 0.
C4_EmptyAllZero ==
    entries = <<>> =>
        /\ C4_TotalsAndMetricsZero
        /\ \A k \in DOMAIN skillScores(entries) : skillScores(entries)[k] = 0

\* C4 amended: for an empty collection every total and every derived metric
\* is 0, the Run Volume, Strike-Rate, Power, Wicket-Threat and Fielding
\* scores are 0, and the Rotation and Economy scores are 100.
C4_EmptyScores ==
    entries = <<>> =>
        /\ C4_TotalsAndMetricsZero
        /\ skillScores(entries) =
              [batVolume |-> 0, batSR |-> 0, rotation |-> 100, power |-> 0,
               bowlStrike |-> 0, economy |-> 100, fielding |-> 0]

\* the collection emptied again after records were saved
C4_Witness == entries = <<>> /\ nextId > 1

\* C5: each of the seven skill scores is an integer from 0 to 100.
C5_ScoresInRange ==
    \A k \in DOMAIN skillScores(entries) : skillScores(entries)[k] \in 0..100

\* C6: the totals are the same for every reordering of the collection.
C6_TotalsPermutationInvariant ==
    LET n == Len(entries)
    IN  \A t \in {totals(entries)} :
          \A p \in [1..n -> 1..n] :
             (\A i, j \in 1..n : p[i] = p[j] => i = j)
                => totals([i \in 1..n |-> entries[p[i]]]) = t

\* two records that differ in what they add to the totals
C6_Witness ==
    /\ Len(entries) >= 2
    /\ OrZero(entries[1], "runs") # OrZero(entries[2], "runs")
    /\ effectiveBowlBalls(entries[1]) # effectiveBowlBalls(entries[2])

\* C7: the dismissed-out count is the number of records whose dismissal kind
\* is not "Not Out", a missing or empty kind counting as one.
C7_OutsCountNotNotOut ==
    totals(entries).outs =
        Cardinality({i \in 1..Len(entries) : Get(entries[i], "dismissal") # NotOut})

\* C8: a save through the form stores a record whose numeric fields are all
\* non-negative integers.
C8_SavedNumericNonNegative ==
    [][addOrUpdateEntry =>
        LET id == IF Get(form, "id").t \in {"null", "undef"}
                  THEN randomUUID(nextId) ELSE form.id
            saved == entries'[findIndex(entries', id)]
        IN  \A k \in NumericFields : saved[k].t = "num" /\ saved[k].v >= 0]_vars

\* The balls an overs text stands for: the number before the first dot times
\* six plus the number between the first dot and the next
C9_NotationBalls(s) ==
    LET dots == {i \in 1..Len(s) : s[i] = "."}
        first == IF dots = {} THEN Len(s) + 1
                 ELSE CHOOSE i \in dots : \A j \in dots : i <= j
        later == {i \in dots : i > first}
        second == IF later = {} THEN Len(s) + 1
                  ELSE CHOOSE i \in later : \A j \in later : i <= j
    IN  toInt(Str(SubSeq(s, 1, first - 1))) * 6 + toInt(Str(SubSeq(s, first + 1, second - 1)))

C9_Effective(e) ==
    IF "bowlBalls" \in DOMAIN e /\ e.bowlBalls # Num(0) THEN e.bowlBalls.v
    ELSE IF "overs" \notin DOMAIN e \/ e.overs = Empty THEN 0
    ELSE C9_NotationBalls(e.overs.v)

RECURSIVE C9_Sum(_)
C9_Sum(list) == IF list = <<>> THEN 0 ELSE C9_Effective(Head(list)) + C9_Sum(Tail(list))

\* C9: the bowling-ball total is the sum of the records' effective bowling
\* balls: the explicit count when present and nonzero, else the balls the
\* overs text stands for (0 when absent or empty), never both.
C9_BowlBallsEffective == totals(entries).bowlBalls = C9_Sum(entries)

\* a record with a ball count and an overs text, and one with the text alone
C9_Witness ==
    /\ \E i \in 1..Len(entries) :
          Truthy(Get(entries[i], "bowlBalls")) /\ oversToBalls(Get(entries[i], "overs")) > 0
    /\ \E i \in 1..Len(entries) :
          ~Truthy(Get(entries[i], "bowlBalls")) /\ oversToBalls(Get(entries[i], "overs")) > 0

\* The rules in the order of their definition, each with its message
C10_RuleOrder ==
    <<"Last 3 innings avg", "Strike rate below benchmark", "High dot ball percentage",
      "Boundary %", "Many dismissals are caught", "LBW/Bowled frequency",
      "Economy in T20", "High extras rate", "Low wicket-taking", "Drops exceed catches">>

C10_RuleNo(msg) == CHOOSE r \in 1..Len(C10_RuleOrder) : C10_RuleOrder[r] = msg

\* The condition of each rule
C10_Holds(r) ==
    LET t == totals(entries)
        n == Len(entries)
        kind(d) == Cardinality({i \in 1..n : Get(entries[i], "dismissal") = d})
        extras == sumOf(entries, "wides") + sumOf(entries, "noBalls")
    IN  CASE r = 1 -> n >= 3
          [] r = 2 -> battingSR(t) < 1000 /\ someT20(entries)
          [] r = 3 -> dotPct(t) > 450
          [] r = 4 -> boundaryPct(t) < 350 /\ someT20(entries)
          [] r = 5 -> kind(Caught) * 10 > 4 * n
          [] r = 6 -> (kind(LBW) + kind(Bowled)) * 10 > 3 * n
          [] r = 7 -> someT20(entries) /\ bowlingEconomy(t) > 850
          [] r = 8 -> t.bowlBalls # 0 /\ extras * 100 > 5 * t.bowlBalls
          [] r = 9 -> t.wickets = 0 /\ t.bowlBalls > 24
          [] r = 10 -> t.drops > t.catches

\* C10: every rule whose condition holds has its item in the list, whatever
\* other rules fire, and the items stand in the order of the rules.
C10_AllRulesInOrder ==
    LET list == insights(entries, form)
    IN  /\ \A r \in 1..Len(C10_RuleOrder) :
              C10_Holds(r) => \E i \in 1..Len(list) : list[i].msg = C10_RuleOrder[r]
        /\ \A i, j \in 1..Len(list) :
              (i < j /\ list[j] # Fallback) => C10_RuleNo(list[i].msg) < C10_RuleNo(list[j].msg)

\* C11: whatever text the storage holds when the page is opened, the value
\* loaded into the collection is a list: the list last saved, or the empty
\* list when nothing is stored or the stored text does not parse
C11_LoadYieldsList ==
    [][pageLoad =>
         LET loaded == loadEntries(storage)
         IN  /\ loaded.t = "arr"
             /\ (storage.t = "null" \/ JSONparse(storage).thrown) => loaded.v = <<>>
             /\ (storage.t = "json" /\ storage.v.t = "arr") => loaded.v = storage.v.v
             /\ status' = "running" /\ entries' = loaded.v]_vars

\* C12: an imported file that does not parse, or parses to something that
\* is not an array, raises an alert and leaves the collection as it was;
\* a file that parses to an array makes that array the whole collection
C12_ImportAllOrNothing ==
    [][\A file \in SampleFiles :
         importJSON(file) =>
            IF file.t = "json" /\ file.v.t = "arr"
            THEN entries' = file.v.v /\ alertMsg' = NoAlert
            ELSE entries' = entries /\ alertMsg' \in {InvalidFile, CouldNotParse}]_vars

C12_Witness == alertMsg = InvalidFile /\ Len(entries) = MaxSeries

\* C13: whatever the collection, every ratio metric has a value, and the
\* value for a zero denominator is fixed: strike rate and dot-ball
\* percentage are 0 when no ball was faced, economy is 0 when no ball was
\* bowled, boundary percentage is 0 when no run was scored, and the
\* batting average is the run total itself when nobody was out
C13_ZeroDenominators ==
    \A t \in {totals(entries)} :
        /\ {battingAverage(t), battingSR(t), bowlingEconomy(t), boundaryPct(t), dotPct(t)}
              \subseteq Int
        /\ t.balls = 0 => battingSR(t) = 0 /\ dotPct(t) = 0
        /\ t.bowlBalls = 0 => bowlingEconomy(t) = 0
        /\ t.runs = 0 => boundaryPct(t) = 0
        /\ t.outs = 0 => battingAverage(t) = t.runs * 100

C13_Witness ==
    \A t \in {totals(entries)} :
        /\ t.outs = 0 /\ t.runs > 0
        /\ t.balls = 0 /\ t.dots > 0
        /\ t.bowlBalls = 0

\* The dismissal kind of a record: a kind left out or empty is "Unknown"
C14_Kind(e) ==
    IF Get(e, "dismissal") \in {Undef, Null, Empty} THEN Unknown ELSE Get(e, "dismissal")

C14_FirstOf(kind) == CHOOSE i \in 1..Len(entries) :
                        /\ C14_Kind(entries[i]) = kind
                        /\ \A j \in 1..(i - 1) : C14_Kind(entries[j]) # kind

\* C14: the dismissal breakdown has exactly one pair per dismissal kind in
\* the collection, a kind left out or empty counted as "Unknown"; the
\* count of a pair is the number of records of its kind; and the pairs
\* stand in the order in which their kinds first occur in the collection,
\* whatever text the kinds are
C14_BreakdownByFirstOccurrence ==
    \A dc \in {dismissalCounts(entries)} :
        /\ \A i \in 1..Len(entries) :
              \E k \in 1..Len(dc) : dc[k].name = C14_Kind(entries[i])
        /\ \A k \in 1..Len(dc) :
              /\ \A m \in 1..Len(dc) : dc[m].name = dc[k].name => m = k
              /\ dc[k].value =
                    Cardinality({i \in 1..Len(entries) : C14_Kind(entries[i]) = dc[k].name})
              /\ dc[k].value > 0
        /\ \A k, m \in 1..Len(dc) :
              k < m => C14_FirstOf(dc[k].name) < C14_FirstOf(dc[m].name)

\* C15: the time series has one point per record of the collection,
\* numbered 1..n; its records are those of the collection in order of
\* non-decreasing date, records of the same date in the order they have
\* in the collection
C15_SeriesInDateOrder ==
    \A s \in {sorted(entries)} : \A points \in {runTrend(entries)} :
        /\ Len(points) = Len(entries)
        /\ \A i \in 1..Len(points) : points[i].idx = i
        /\ \E p \in [1..Len(entries) -> 1..Len(entries)] :
              /\ \A i, j \in 1..Len(entries) : p[i] = p[j] => i = j
              /\ \A i \in 1..Len(entries) : s[i] = entries[p[i]]
              /\ \A i, j \in 1..Len(entries) :
                    (i < j /\ Get(s[i], "date") = Get(s[j], "date")) => p[i] < p[j]
        /\ \A i, j \in 1..Len(s) : i < j => ~dateAfter(s[i], s[j])

C16_Ids(list) == {Get(list[i], "id") : i \in 1..Len(list)}

\* C16: in a collection built from the empty one by Save Entry, Edit,
\* Delete and Reset no two records share an identifier; a save with the
\* form holding the identifier of a record of the collection puts the saved
\* record in that record's place, with that identifier, the other records
\* and the length as they were; a save with no identifier in the form puts
\* one record, under an identifier not in the collection, in front of the
\* others
C16_IdentifiersKept ==
    [][/\ \A i, j \in 1..Len(entries') :
             Get(entries'[i], "id") = Get(entries'[j], "id") => i = j
       /\ addOrUpdateEntryUpTo(MaxFormIds) =>
             IF Get(form, "id") \in C16_Ids(entries)
             THEN /\ Len(entries') = Len(entries)
                  /\ \A i \in 1..Len(entries) :
                        IF Get(entries[i], "id") = Get(form, "id")
                        THEN Get(entries'[i], "id") = Get(form, "id")
                        ELSE entries'[i] = entries[i]
             ELSE IF Get(form, "id") = Null
             THEN /\ Len(entries') = Len(entries) + 1
                  /\ Tail(entries') = entries
                  /\ Get(Head(entries'), "id") \notin C16_Ids(entries) \cup {Null, Undef}
             ELSE TRUE]_vars

C16_Witness ==
    /\ Len(entries) = MaxEntries
    /\ nextId > MaxEntries
    /\ Get(form, "id") = Get(entries[Len(entries)], "id")
    /\ Get(entries[1], "format") # Get(entries[Len(entries)], "format")

====
